---- MODULE Spec2Model ----
(***************************************************************************)
(* Model of the advanced-crawl orchestrator of app/api.py: URL             *)
(* normalisation, media filtering, worklist building, the semaphore-bound  *)
(* fan-out over the page engine and the aggregation of the report.         *)
(* URLs are strings; the string functions are modelled character by        *)
(* character as Python computes them.                                      *)
(***************************************************************************)
EXTENDS Integers, Sequences, FiniteSets, TLC

VARIABLES
    pc,            \* control state of advanced_crawl
    input_url,     \* str(request.url)
    site,          \* what the page engine finds on the seed page (environment)
    crawler,       \* the AsyncWebCrawler session: "unopened", "open", "closed"
    closes,        \* number of times the session was released
    result,        \* result of the discovery arun
    internal_urls, \* the set of keys to process, in insertion order
    tasks,         \* the urls of the process_url tasks, in launch order
    tstate,        \* per task: "waiting" (for the semaphore), "running", "done"
    md_result,     \* per task: what the engine's arun did
    returned,      \* per task: what process_url returned
    results,       \* what gather returned
    finished,      \* task indices in the order of completion
    semaphore,     \* value of the asyncio.Semaphore, -1 before it is created
    arun_calls,    \* number of discovery and pre-warm arun calls made
    fetch_calls,   \* per task: number of fan-out arun calls made
    response,      \* what the handler gives back
    phase,         \* normalisation study: "input", "normalized", "renormalized"
    nurl,          \* normalisation study: a URL in some cosmetic form
    nplain,        \* normalisation study: the same URL in plain form
    nkey,          \* normalize_url(nurl)
    pkey,          \* normalize_url(nplain)
    nkey2,         \* normalize_url(nkey)
    api_key_header, \* the X-API-Key header of the request: <<>> or <<key>>
    table,         \* the credential directory: reachable or not, and its keys
    auth           \* what get_api_key did with the request

crawlVars == <<pc, input_url, site, crawler, closes, result, internal_urls, tasks,
               tstate, md_result, returned, results, finished, semaphore,
               arun_calls, fetch_calls, response>>
normVars == <<phase, nurl, nplain, nkey, pkey, nkey2>>
authVars == <<api_key_header, table, auth>>
vars == <<crawlVars, normVars, authVars>>

(***************************************************************************)
(* Python string functions                                                 *)
(***************************************************************************)

\* str.startswith
StartsWith(s, p) == Len(s) >= Len(p) /\ SubSeq(s, 1, Len(p)) = p

\* str.endswith
EndsWith(s, p) == Len(s) >= Len(p) /\ SubSeq(s, Len(s) - Len(p) + 1, Len(s)) = p

\* s.split(sep)[0] for a one-character sep: the text before the first sep
RECURSIVE SplitFirst(_, _)
SplitFirst(s, sep) ==
    IF s = "" THEN ""
    ELSE IF Head(s) = sep THEN ""
    ELSE Head(s) \o SplitFirst(Tail(s), sep)

\* s.rstrip(c): every trailing c is removed
RECURSIVE RStrip(_, _)
RStrip(s, c) ==
    IF s # "" /\ SubSeq(s, Len(s), Len(s)) = c
    THEN RStrip(SubSeq(s, 1, Len(s) - 1), c)
    ELSE s

\* s.replace(old, new): every non-overlapping occurrence, left to right
RECURSIVE Replace(_, _, _)
Replace(s, old, new) ==
    IF Len(s) < Len(old) THEN s
    ELSE IF SubSeq(s, 1, Len(old)) = old
         THEN new \o Replace(SubSeq(s, Len(old) + 1, Len(s)), old, new)
         ELSE Head(s) \o Replace(Tail(s), old, new)

LowerMap ==
    [A |-> "a", B |-> "b", C |-> "c", D |-> "d", E |-> "e", F |-> "f", G |-> "g",
     H |-> "h", I |-> "i", J |-> "j", K |-> "k", L |-> "l", M |-> "m", N |-> "n",
     O |-> "o", P |-> "p", Q |-> "q", R |-> "r", S |-> "s", T |-> "t", U |-> "u",
     V |-> "v", W |-> "w", X |-> "x", Y |-> "y", Z |-> "z"]

\* str.lower
RECURSIVE Lower(_)
Lower(s) ==
    IF s = "" THEN ""
    ELSE (IF Head(s) \in DOMAIN LowerMap THEN LowerMap[Head(s)] ELSE Head(s))
         \o Lower(Tail(s))

(***************************************************************************)
(* Utility functions of app/api.py                                         *)
(***************************************************************************)

media_extensions ==
    {".jpg", ".jpeg", ".png", ".gif", ".bmp", ".webp", ".svg", ".ico", ".tiff",
     ".mp3", ".wav", ".ogg", ".m4a", ".aac",
     ".mp4", ".webm", ".avi", ".mov", ".wmv", ".flv",
     ".pdf", ".doc", ".docx", ".xls", ".xlsx", ".ppt", ".pptx",
     ".zip", ".rar", ".7z", ".tar", ".gz",
     ".swf", ".woff", ".woff2", ".ttf", ".eot"}

\* the protocol step of normalize_url
EnsureHttps(url) ==
    IF StartsWith(url, "http://")
    THEN "https://" \o SubSeq(url, 8, Len(url))
    ELSE url

normalize_url(url) ==
    LET noFragment == SplitFirst(url, "#")
        noSlash    == RStrip(noFragment, "/")
        noWww      == Replace(noSlash, "www.", "")
        noPort     == Replace(Replace(noWww, ":80/", "/"), ":443/", "/")
    IN  Lower(EnsureHttps(noPort))

is_media_url(url) ==
    LET lower_url == Lower(url)
    IN  \E ext \in media_extensions : EndsWith(lower_url, ext)

is_same_url(url1, url2) == normalize_url(url1) = normalize_url(url2)

(***************************************************************************)
(* The credential check of app/auth.py                                     *)
(***************************************************************************)

HTTP_403_FORBIDDEN == 403

\* no X-API-Key header: APIKeyHeader(auto_error=False) gives None
NoHeader == <<>>

StoredKeys == {"key-alice"}
Headers == {NoHeader, <<"key-alice">>, <<"key-mallory">>}
Tables == {[up |-> TRUE, keys |-> StoredKeys], [up |-> FALSE, keys |-> StoredKeys]}

NotChecked == [status |-> "pending", code |-> 0, detail |-> ""]
KeyAccepted == [status |-> "ok", code |-> 200, detail |-> ""]

\* raise HTTPException(status_code=..., detail=...)
HTTPException(code, detail) == [status |-> "rejected", code |-> code, detail |-> detail]

\* get_api_key: the header is sliced for the log before it is tested for
\* None; every exception inside the try, the "Invalid API key" one
\* included, is turned into a 403
get_api_key(header, tbl) ==
    IF header = NoHeader
    THEN HTTPException(500, "'NoneType' object is not subscriptable")
    ELSE IF ~tbl.up
    THEN HTTPException(HTTP_403_FORBIDDEN,
                       "Error validating API key: " \o "directory unavailable")
    ELSE IF header[1] \in tbl.keys
    THEN KeyAccepted
    ELSE HTTPException(HTTP_403_FORBIDDEN,
                       "Error validating API key: " \o "403: Invalid API key")

\* the request of an accepted caller
AcceptedHeader == <<"key-alice">>
ReachableTable == [up |-> TRUE, keys |-> StoredKeys]

(***************************************************************************)
(* Normalisation study: a URL in a cosmetic form and in its plain form     *)
(***************************************************************************)

Schemes == {"https://", "http://", "HTTP://"}
WwwLabels == {"", "www.", "WWW."}
HostSpellings ==
    {[plain |-> "example.com", as |-> "example.com"],
     [plain |-> "example.com", as |-> "Example.com"],
     [plain |-> "shop.example.org", as |-> "shop.example.org"]}
Ports == {"", ":80", ":443"}
PathSpellings ==
    {[plain |-> "", as |-> ""],
     [plain |-> "/page", as |-> "/page"],
     [plain |-> "/page", as |-> "/Page"],
     [plain |-> "/docs/api", as |-> "/docs/api"]}
Slashes == {"", "/"}
Fragments == {"", "#frag"}

InitNorm ==
    /\ phase = "input"
    /\ \E sch \in Schemes, w \in WwwLabels, h \in HostSpellings, prt \in Ports,
          p \in PathSpellings, sl \in Slashes, fr \in Fragments :
          /\ nurl = sch \o w \o h.as \o prt \o p.as \o sl \o fr
          /\ nplain = "https://" \o h.plain \o p.plain
    /\ nkey = "" /\ pkey = "" /\ nkey2 = ""
    /\ pc = "Idle" /\ input_url = "" /\ site = [internal |-> <<>>, external |-> <<>>,
               flaky |-> TRUE, failing |-> {}, raising |-> {}]
    /\ crawler = "unopened" /\ closes = 0
    /\ result = [state |-> "none", internal |-> <<>>, external |-> <<>>,
                 error_message |-> ""]
    /\ internal_urls = <<>> /\ tasks = <<>> /\ tstate = <<>> /\ md_result = <<>>
    /\ returned = <<>> /\ results = <<>> /\ finished = <<>> /\ semaphore = -1
    /\ arun_calls = [discover |-> 0, prewarm |-> 0] /\ fetch_calls = <<>>
    /\ response = [status |-> "pending", success |-> FALSE, url |-> "",
                   pages |-> <<>>, error_message |-> ""]
    /\ api_key_header = AcceptedHeader /\ table = ReachableTable
    /\ auth = NotChecked

\* normalize_url is applied to both forms
NormalizeUrl ==
    /\ phase = "input"
    /\ nkey' = normalize_url(nurl)
    /\ pkey' = normalize_url(nplain)
    /\ phase' = "normalized"
    /\ UNCHANGED <<nurl, nplain, nkey2, crawlVars, authVars>>

\* normalize_url is applied to a key it produced
NormalizeKey ==
    /\ phase = "normalized"
    /\ nkey2' = normalize_url(nkey)
    /\ phase' = "renormalized"
    /\ UNCHANGED <<nurl, nplain, nkey, pkey, crawlVars, authVars>>

NextNorm == NormalizeUrl \/ NormalizeKey

SpecNorm == InitNorm /\ [][NextNorm]_vars

(***************************************************************************)
(* Distinctness study: two URLs that differ by more than a cosmetic        *)
(* variation (another host label, another path segment, a second trailing  *)
(* slash), each side passed through normalize_url                          *)
(***************************************************************************)

DistinctSchemes == {"https://", "http://"}

\* hosts: the same host on both sides, or a "www." label below the first one
DistinctHosts ==
    UNION {{[a |-> h, b |-> h], [a |-> "docs.www." \o h, b |-> "docs." \o h]} :
           h \in {"example.com", "shop.example.org"}}

\* paths: the same path on both sides, or a segment that holds "www.",
\* ":80/" or ":443/"
DistinctPaths ==
    {[a |-> "/news", b |-> "/news"], [a |-> "/p/x", b |-> "/p/x"],
     [a |-> "/www.news", b |-> "/news"],
     [a |-> "/p:80/x", b |-> "/p/x"],
     [a |-> "/p:443/x", b |-> "/p/x"]}

\* tails: nothing on both sides, or two trailing slashes against none
DistinctTails == {[a |-> "", b |-> ""], [a |-> "//", b |-> ""]}

DistinctPairs ==
    {[a |-> sch \o h.a \o p.a \o t.a, b |-> sch \o h.b \o p.b \o t.b] :
        sch \in DistinctSchemes, h \in DistinctHosts, p \in DistinctPaths,
        t \in DistinctTails}

InitDistinct ==
    /\ phase = "input"
    /\ \E pr \in DistinctPairs :
          /\ pr.a # pr.b
          /\ nurl = pr.a
          /\ nplain = pr.b
    /\ nkey = "" /\ pkey = "" /\ nkey2 = ""
    /\ pc = "Idle" /\ input_url = "" /\ site = [internal |-> <<>>, external |-> <<>>,
               flaky |-> TRUE, failing |-> {}, raising |-> {}]
    /\ crawler = "unopened" /\ closes = 0
    /\ result = [state |-> "none", internal |-> <<>>, external |-> <<>>,
                 error_message |-> ""]
    /\ internal_urls = <<>> /\ tasks = <<>> /\ tstate = <<>> /\ md_result = <<>>
    /\ returned = <<>> /\ results = <<>> /\ finished = <<>> /\ semaphore = -1
    /\ arun_calls = [discover |-> 0, prewarm |-> 0] /\ fetch_calls = <<>>
    /\ response = [status |-> "pending", success |-> FALSE, url |-> "",
                   pages |-> <<>>, error_message |-> ""]
    /\ api_key_header = AcceptedHeader /\ table = ReachableTable
    /\ auth = NotChecked

SpecDistinct == InitDistinct /\ [][NextNorm]_vars

(***************************************************************************)
(* The advanced-crawl orchestrator                                         *)
(***************************************************************************)

\* asyncio.Semaphore(5)
MaxConcurrency == 5

\* longest list of links the engine reports in the generated sites
MaxLinks == 2

EngineError == "net::ERR_NAME_NOT_RESOLVED"
RaisedError == "Browser has been closed"

NoResult == [state |-> "none", internal |-> <<>>, external |-> <<>>,
             error_message |-> ""]
NoResponse == [status |-> "pending", success |-> FALSE, url |-> "",
               pages |-> <<>>, error_message |-> ""]

\* AdvancedResponse(success=False, url=input_url, error_message=...)
FailedResponse(url, err) ==
    [status |-> "returned", success |-> FALSE, url |-> url, pages |-> <<>>,
     error_message |-> "Failed to crawl initial URL: " \o err]

\* AdvancedResponse(success=True, url=input_url, pages=pages)
SuccessResponse(url, pages) ==
    [status |-> "returned", success |-> TRUE, url |-> url, pages |-> pages,
     error_message |-> ""]

\* raise HTTPException(status_code=500, detail=str(e))
ErrorResponse(err) ==
    [status |-> "http500", success |-> FALSE, url |-> "", pages |-> <<>>,
     error_message |-> err]

\* Optional[PageMarkdown]
PageMarkdown(url) == [kind |-> "page", url |-> url]
NonePage == [kind |-> "none", url |-> ""]
Pending == [kind |-> "pending", url |-> ""]
Escaped == [kind |-> "exception", url |-> ""]

Range(s) == {s[i] : i \in 1..Len(s)}

RECURSIVE Reverse(_)
Reverse(s) == IF Len(s) = 0 THEN <<>> ELSE Append(Reverse(Tail(s)), Head(s))

\* a list where the code has a set: append without the membership test
SetAdd_AsList(s, x) == Append(s, x)

\* set.add on a set kept in insertion order
SetAdd(s, x) == IF x \in Range(s) THEN s ELSE Append(s, x)

\* the comprehension's condition without the media test
KeepLink_NoMediaTest(href, seed) == ~is_same_url(href, seed)

\* the condition of the set comprehension
KeepLink(href, seed) == ~is_media_url(href) /\ ~is_same_url(href, seed)

\* the links the comprehension reads from the discovery result
LinksRead(res) == res.internal

\* the set comprehension over the links
RECURSIVE UniqueKeys(_, _, _)
UniqueKeys(links, seed, acc) ==
    IF Len(links) = 0 THEN acc
    ELSE UniqueKeys(Tail(links), seed,
                    IF KeepLink(Head(links), seed)
                    THEN SetAdd(acc, normalize_url(Head(links)))
                    ELSE acc)

\* internal_urls after internal_urls.add(normalize_url(input_url))
Worklist(res, seed) == SetAdd(UniqueKeys(LinksRead(res), seed, <<>>), normalize_url(seed))

\* the orders in which the set may be iterated
IterationOrders(s) == {s, Reverse(s)}

\* an admission that never waits
CanAcquire_Always(value) == TRUE

\* Semaphore.acquire goes through without waiting
CanAcquire(value) == value > 0

\* the failure test left out
DiscoveryIsFatal_Never(res) == FALSE

\* if not result.success
DiscoveryIsFatal(res) == res.state = "failure"

\* process_url without its "except Exception"
process_url_NoExcept(url, outcome) ==
    CASE outcome = "success" -> PageMarkdown(url)
      [] outcome = "failure" -> NonePage
      [] outcome = "raised"  -> Escaped

\* what process_url returns for what the engine's arun did
process_url(url, outcome) ==
    CASE outcome = "success" -> PageMarkdown(url)
      [] outcome = "failure" -> NonePage
      [] outcome = "raised"  -> NonePage

\* results appended as the tasks complete
GatherResults_OnCompletion(rets, order) == [i \in 1..Len(rets) |-> rets[order[i]]]

\* asyncio.gather: the returned values in the order of the tasks
GatherResults(rets, order) == [i \in 1..Len(rets) |-> rets[i]]

\* [page for page in results if page is not None]
RECURSIVE Pages(_)
Pages(rs) ==
    IF Len(rs) = 0 THEN <<>>
    ELSE IF Head(rs).kind = "page" THEN <<Head(rs)>> \o Pages(Tail(rs))
    ELSE Pages(Tail(rs))

(***************************************************************************)
(* Sites: what the engine reports for the seed page                        *)
(***************************************************************************)

Seeds == {"https://example.com/"}

LinkCorpus ==
    {"https://example.com/a", "https://example.com/a/",
     "https://example.com/b.jpg", "https://example.com/report.PDF#page=2",
     "https://WWW.example.com/", "https://example.com/#top",
     "https://example.com/docs#top"}

RECURSIVE SeqsUpTo(_, _)
SeqsUpTo(S, n) ==
    IF n = 0 THEN {<<>>}
    ELSE LET shorter == SeqsUpTo(S, n - 1)
         IN  shorter \cup {Append(q, x) : q \in shorter, x \in S}

EndToEndSeed == "https://example.com/"
EndToEndSite ==
    [internal |-> <<"/a", "/a/", "/b.jpg", "https://example.com/c#frag">>,
     external |-> <<"https://other.com/">>,
     flaky |-> TRUE, failing |-> {}, raising |-> {}]

\* a site with more pages than permits, one page failing and one raising
WideSite ==
    [internal |-> <<"https://example.com/p1", "https://example.com/p2",
                    "https://example.com/p3", "https://example.com/p4",
                    "https://example.com/p5">>,
     external |-> <<>>,
     flaky |-> FALSE,
     failing |-> {"https://example.com/p2"},
     raising |-> {"https://example.com/p4"}]

\* what the engine's arun may do for a page of the site
EngineOutcomes(st, url) ==
    IF st.flaky THEN {"success", "failure", "raised"}
    ELSE IF url \in st.failing THEN {"failure"}
    ELSE IF url \in st.raising THEN {"raised"}
    ELSE {"success"}

GeneratedScenarios ==
    {[seed |-> sd, site |-> [internal |-> ls, external |-> <<"https://other.com/">>,
                            flaky |-> TRUE, failing |-> {}, raising |-> {}]] :
        sd \in Seeds, ls \in SeqsUpTo(LinkCorpus, MaxLinks)}

Scenarios == GeneratedScenarios \cup {[seed |-> EndToEndSeed, site |-> EndToEndSite]}

WideScenarios == {[seed |-> "https://example.com/", site |-> WideSite]}

(***************************************************************************)
(* Actions                                                                 *)
(***************************************************************************)

InitCrawl(scenarios) ==
    /\ pc = "Idle"
    /\ \E sc \in scenarios : input_url = sc.seed /\ site = sc.site
    /\ crawler = "unopened" /\ closes = 0
    /\ result = NoResult
    /\ internal_urls = <<>> /\ tasks = <<>> /\ tstate = <<>> /\ md_result = <<>>
    /\ returned = <<>> /\ results = <<>> /\ finished = <<>> /\ semaphore = -1
    /\ arun_calls = [discover |-> 0, prewarm |-> 0] /\ fetch_calls = <<>>
    /\ response = NoResponse
    /\ phase = "input" /\ nurl = "" /\ nplain = "" /\ nkey = "" /\ pkey = ""
    /\ nkey2 = ""
    /\ api_key_header = AcceptedHeader /\ table = ReachableTable
    /\ auth = get_api_key(api_key_header, table)

Init == InitCrawl(Scenarios)

InitWide == InitCrawl(WideScenarios)

\* leaving the "async with AsyncWebCrawler()" block
CloseCrawler == crawler' = "closed" /\ closes' = closes + 1

\* the handler starts: the semaphore is created, the session is opened and
\* the discovery arun is called
Start ==
    /\ pc = "Idle"
    /\ semaphore' = MaxConcurrency
    /\ crawler' = "open"
    /\ arun_calls' = [arun_calls EXCEPT !.discover = @ + 1]
    /\ pc' = "DiscoveringLinks"
    /\ UNCHANGED <<input_url, site, closes, result, internal_urls, tasks, tstate,
                   md_result, returned, results, finished, fetch_calls, response,
                   normVars, authVars>>

\* the discovery arun has returned res
DiscoveryReturned(res) ==
    /\ result' = res
    /\ IF DiscoveryIsFatal(res)
       THEN /\ response' = FailedResponse(input_url, res.error_message)
            /\ CloseCrawler
            /\ pc' = "Failed"
       ELSE /\ pc' = "BuildingWorklist"
            /\ UNCHANGED <<response, crawler, closes>>
    /\ UNCHANGED <<input_url, site, internal_urls, tasks, tstate, md_result,
                   returned, results, finished, semaphore, arun_calls, fetch_calls,
                   normVars, authVars>>

DiscoverySucceeds ==
    /\ pc = "DiscoveringLinks"
    /\ DiscoveryReturned([state |-> "success", internal |-> site.internal,
                          external |-> site.external, error_message |-> ""])

DiscoveryFails ==
    /\ pc = "DiscoveringLinks"
    /\ DiscoveryReturned([state |-> "failure", internal |-> <<>>,
                          external |-> <<>>, error_message |-> EngineError])

\* the exception reaches the handler from code outside any "async with"
RaiseToHandler_NoClose ==
    /\ response' = ErrorResponse(RaisedError)
    /\ pc' = "Error"
    /\ UNCHANGED <<crawler, closes>>

\* an exception leaves the "async with" block and reaches "except Exception"
RaiseToHandler ==
    /\ response' = ErrorResponse(RaisedError)
    /\ CloseCrawler
    /\ pc' = "Error"

DiscoveryRaises ==
    /\ pc = "DiscoveringLinks"
    /\ RaiseToHandler
    /\ UNCHANGED <<input_url, site, result, internal_urls, tasks, tstate, md_result,
                   returned, results, finished, semaphore, arun_calls, fetch_calls,
                   normVars, authVars>>

\* the worklist is built and the tasks are made without a pre-warm call
BuildWorklist_NoPrewarm ==
    /\ pc = "BuildingWorklist"
    /\ internal_urls' = Worklist(result, input_url)
    /\ tasks' = internal_urls'
    /\ tstate' = [i \in 1..Len(tasks') |-> "waiting"]
    /\ md_result' = [i \in 1..Len(tasks') |-> "none"]
    /\ returned' = [i \in 1..Len(tasks') |-> Pending]
    /\ fetch_calls' = [i \in 1..Len(tasks') |-> 0]
    /\ pc' = "FanningOut"
    /\ UNCHANGED <<input_url, site, crawler, closes, result, results, finished,
                   semaphore, arun_calls, response, normVars, authVars>>

\* the worklist is built and the pre-warm arun is called
BuildWorklist ==
    /\ pc = "BuildingWorklist"
    /\ internal_urls' = Worklist(result, input_url)
    /\ arun_calls' = [arun_calls EXCEPT !.prewarm = @ + 1]
    /\ pc' = "PrewarmingEngine"
    /\ UNCHANGED <<input_url, site, crawler, closes, result, tasks, tstate,
                   md_result, returned, results, finished, semaphore, fetch_calls,
                   response, normVars, authVars>>

\* the pre-warm arun returns (its result is dropped) and the tasks are made
PrewarmReturns ==
    /\ pc = "PrewarmingEngine"
    /\ \E order \in IterationOrders(internal_urls) :
          /\ tasks' = order
          /\ tstate' = [i \in 1..Len(order) |-> "waiting"]
          /\ md_result' = [i \in 1..Len(order) |-> "none"]
          /\ returned' = [i \in 1..Len(order) |-> Pending]
          /\ fetch_calls' = [i \in 1..Len(order) |-> 0]
    /\ pc' = "FanningOut"
    /\ UNCHANGED <<input_url, site, crawler, closes, result, internal_urls,
                   results, finished, semaphore, arun_calls, response, normVars, authVars>>

PrewarmRaises ==
    /\ pc = "PrewarmingEngine"
    /\ RaiseToHandler
    /\ UNCHANGED <<input_url, site, result, internal_urls, tasks, tstate, md_result,
                   returned, results, finished, semaphore, arun_calls, fetch_calls,
                   normVars, authVars>>

\* task i enters "async with semaphore" and calls arun
Acquire(i) ==
    /\ pc = "FanningOut"
    /\ tstate[i] = "waiting"
    /\ CanAcquire(semaphore)
    /\ semaphore' = semaphore - 1
    /\ tstate' = [tstate EXCEPT ![i] = "running"]
    /\ fetch_calls' = [fetch_calls EXCEPT ![i] = @ + 1]
    /\ UNCHANGED <<pc, input_url, site, crawler, closes, result, internal_urls,
                   tasks, md_result, returned, results, finished, arun_calls,
                   response, normVars, authVars>>

\* the arun of task i ends with outcome; process_url leaves "async with
\* semaphore"; an exception that process_url lets out is raised by gather
Complete(i, outcome) ==
    /\ pc = "FanningOut"
    /\ tstate[i] = "running"
    /\ outcome \in EngineOutcomes(site, tasks[i])
    /\ md_result' = [md_result EXCEPT ![i] = outcome]
    /\ returned' = [returned EXCEPT ![i] = process_url(tasks[i], outcome)]
    /\ semaphore' = semaphore + 1
    /\ tstate' = [tstate EXCEPT ![i] = "done"]
    /\ finished' = Append(finished, i)
    /\ IF returned'[i] = Escaped
       THEN RaiseToHandler
       ELSE UNCHANGED <<pc, crawler, closes, response>>
    /\ UNCHANGED <<input_url, site, result, internal_urls, tasks, results,
                   arun_calls, fetch_calls, normVars, authVars>>

FetchSucceeds == \E i \in DOMAIN tasks : Complete(i, "success")

FetchFails == \E i \in DOMAIN tasks : Complete(i, "failure")

FetchRaises == \E i \in DOMAIN tasks : Complete(i, "raised")

AcquireSemaphore == \E i \in DOMAIN tasks : Acquire(i)

\* every task is done: gather returns the list of results
Gather ==
    /\ pc = "FanningOut"
    /\ \A i \in DOMAIN tasks : tstate[i] = "done"
    /\ results' = GatherResults(returned, finished)
    /\ pc' = "Aggregating"
    /\ UNCHANGED <<input_url, site, crawler, closes, result, internal_urls, tasks,
                   tstate, md_result, returned, finished, semaphore, arun_calls,
                   fetch_calls, response, normVars, authVars>>

\* the pages are filtered, the report is returned and the session released
Aggregate ==
    /\ pc = "Aggregating"
    /\ response' = SuccessResponse(input_url, Pages(results))
    /\ CloseCrawler
    /\ pc' = "Done"
    /\ UNCHANGED <<input_url, site, result, internal_urls, tasks, tstate, md_result,
                   returned, results, finished, semaphore, arun_calls, fetch_calls,
                   normVars, authVars>>

Next ==
    \/ Start
    \/ DiscoverySucceeds
    \/ DiscoveryFails
    \/ DiscoveryRaises
    \/ BuildWorklist
    \/ PrewarmReturns
    \/ PrewarmRaises
    \/ AcquireSemaphore
    \/ FetchSucceeds
    \/ FetchFails
    \/ FetchRaises
    \/ Gather
    \/ Aggregate

Spec == Init /\ [][Next]_vars

SpecWide == InitWide /\ [][Next]_vars

\* The steps that wait on the event loop or on the engine: every one of them
\* but the straight-line code of lines 309-320
Scheduled ==
    \/ Start
    \/ DiscoverySucceeds
    \/ DiscoveryFails
    \/ DiscoveryRaises
    \/ PrewarmReturns
    \/ PrewarmRaises
    \/ AcquireSemaphore
    \/ FetchSucceeds
    \/ FetchFails
    \/ FetchRaises
    \/ Gather
    \/ Aggregate

\* The wide site under a fair event loop: whenever some step of the handler
\* or of a task is ready the loop runs one, every awaited engine call returns
\* (with a result or an exception), and the code between the discovery call
\* and the pre-warm call, which awaits nothing, runs through
SpecFair ==
    /\ InitWide
    /\ [][Next]_vars
    /\ WF_vars(Scheduled)
    /\ []<>(pc # "BuildingWorklist")

(***************************************************************************)
(* A request from its arrival: Depends(get_api_key) runs before the        *)
(* handler body, and the body runs only when the dependency returns        *)
(***************************************************************************)

AuthScenarios == {[seed |-> EndToEndSeed, site |-> EndToEndSite]}

InitAuth ==
    /\ pc = "Authenticating"
    /\ \E sc \in AuthScenarios : input_url = sc.seed /\ site = sc.site
    /\ api_key_header \in Headers
    /\ table \in Tables
    /\ auth = NotChecked
    /\ crawler = "unopened" /\ closes = 0
    /\ result = NoResult
    /\ internal_urls = <<>> /\ tasks = <<>> /\ tstate = <<>> /\ md_result = <<>>
    /\ returned = <<>> /\ results = <<>> /\ finished = <<>> /\ semaphore = -1
    /\ arun_calls = [discover |-> 0, prewarm |-> 0] /\ fetch_calls = <<>>
    /\ response = NoResponse
    /\ phase = "input" /\ nurl = "" /\ nplain = "" /\ nkey = "" /\ pkey = ""
    /\ nkey2 = ""

\* the dependency runs; the handler is entered only with the key it returns
Authenticate ==
    /\ pc = "Authenticating"
    /\ auth' = get_api_key(api_key_header, table)
    /\ pc' = IF auth'.status = "ok" THEN "Idle" ELSE "Rejected"
    /\ UNCHANGED <<input_url, site, crawler, closes, result, internal_urls,
                   tasks, tstate, md_result, returned, results, finished,
                   semaphore, arun_calls, fetch_calls, response,
                   api_key_header, table, normVars>>

NextAuth == Authenticate \/ Next

SpecAuth == InitAuth /\ [][NextAuth]_vars

(***************************************************************************)
(* Properties                                                              *)
(***************************************************************************)

\* fan-out arun calls in flight
InFlight == Cardinality({i \in DOMAIN tasks : tstate[i] = "running"})

\* the worklist has been built
Built == Len(internal_urls) > 0

\* the urls of the fan-out arun calls made so far
Fetched == {tasks[i] : i \in {j \in DOMAIN tasks : fetch_calls[j] > 0}}

\* the tasks whose arun ended without a page
FailedTasks == {i \in DOMAIN tasks : md_result[i] \in {"failure", "raised"}}

PageUrls == {response.pages[a].url : a \in DOMAIN response.pages}

\* C1: never more than MaxConcurrency fan-out calls are in flight, and a
\* waiting task starts its call only while fewer than MaxConcurrency are.
C1_BoundedConcurrency ==
    /\ [](InFlight <= MaxConcurrency)
    /\ [][\A i \in DOMAIN tstate :
            (tstate[i] = "waiting" /\ tstate'[i] = "running")
               => InFlight < MaxConcurrency]_vars

\* five calls in flight, the sixth task admitted only after one completed
C1_Witness ==
    /\ Len(tasks) > MaxConcurrency
    /\ InFlight = MaxConcurrency
    /\ Len(finished) = 1
    /\ \A i \in DOMAIN tasks : fetch_calls[i] = 1

\* C2: the pages of the report are the successful tasks in launch order,
\* whatever the order of completion.
C2_OrderPreserved ==
    pc = "Done" =>
        /\ PageUrls = {tasks[i] : i \in {j \in DOMAIN tasks : md_result[j] = "success"}}
        /\ \A a, b \in DOMAIN response.pages :
              a < b => \E i, j \in DOMAIN tasks :
                          /\ i < j
                          /\ tasks[i] = response.pages[a].url
                          /\ tasks[j] = response.pages[b].url

\* three pages reported in launch order after completing in the reverse order
C2_Witness ==
    /\ pc = "Done"
    /\ Len(response.pages) = 3
    /\ finished = <<3, 2, 1>>

\* C3: after a successful discovery the report is a success holding exactly
\* the pages of the tasks that did not fail, and no failure of a task
\* reaches the handler.
C3_PartialFailureTolerated ==
    /\ pc = "Done" =>
          /\ response.status = "returned"
          /\ response.success
          /\ Len(response.pages) = Len(tasks) - Cardinality(FailedTasks)
          /\ PageUrls = {tasks[i] : i \in DOMAIN tasks \ FailedTasks}
    /\ Len(finished) > 0 => pc \in {"FanningOut", "Aggregating", "Done"}
    /\ Len(finished) > 0 => response.status # "http500"

\* three tasks, one failed and one raised, one page reported
C3_Witness ==
    /\ pc = "Done"
    /\ Len(tasks) = 3
    /\ \E i, j \in DOMAIN tasks : md_result[i] = "failure" /\ md_result[j] = "raised"
    /\ Len(response.pages) = 1
    /\ response.success

\* C4: once discovery reports failure the handler has returned a failed
\* report without pages that carries the engine's message, and no pre-warm
\* or fan-out call was made.
C4_FatalDiscoveryFailure ==
    result.state = "failure" =>
        /\ pc = "Failed"
        /\ response.status = "returned"
        /\ ~response.success
        /\ Len(response.pages) = 0
        /\ result.error_message = EngineError
        /\ EndsWith(response.error_message, EngineError)
        /\ arun_calls.prewarm = 0
        /\ Len(tasks) = 0
        /\ Fetched = {}

C4_Witness ==
    /\ pc = "Failed"
    /\ result.state = "failure"
    /\ response.status = "returned"
    /\ arun_calls.discover = 1

\* C5: the built worklist has no entry twice, holds exactly one entry for
\* the key of every link kept, and has at most one entry more than there
\* are discovered internal links.
C5_DedupCorrect ==
    /\ Built =>
          /\ \A i, j \in DOMAIN internal_urls :
                i # j => internal_urls[i] # internal_urls[j]
          /\ Len(internal_urls) <= Len(result.internal) + 1
    /\ pc = "PrewarmingEngine" =>
          \A a \in DOMAIN result.internal :
              KeepLink(result.internal[a], input_url) =>
                 Cardinality({i \in DOMAIN internal_urls :
                     internal_urls[i] = normalize_url(result.internal[a])}) = 1

\* two different raw links with the same key were both kept
C5_Witness ==
    /\ pc = "PrewarmingEngine"
    /\ \E a, b \in DOMAIN result.internal :
          /\ result.internal[a] # result.internal[b]
          /\ KeepLink(result.internal[a], input_url)
          /\ KeepLink(result.internal[b], input_url)
          /\ normalize_url(result.internal[a]) = normalize_url(result.internal[b])
    /\ Len(internal_urls) = 2

\* C6: normalising a key again gives the same key.
C6_Idempotent == phase = "renormalized" => nkey2 = nkey

\* C7: a URL in any cosmetic form has the key of its plain form.
C7_CosmeticFormsShareKey == phase # "input" => nkey = pkey

\* the path of a link (the text before "#" and "?") ends in a media extension
HasMediaExtension(link) ==
    LET path == Lower(SplitFirst(SplitFirst(link, "#"), "?"))
    IN  \E ext \in media_extensions : EndsWith(path, ext)

\* C8: a discovered link with a media extension, other than the seed, has
\* no entry in the worklist and no fan-out call.
C8_MediaNeverScheduled ==
    Built =>
        \A a \in DOMAIN result.internal :
            (/\ HasMediaExtension(result.internal[a])
             /\ ~is_same_url(result.internal[a], input_url))
            => /\ normalize_url(result.internal[a]) \notin Range(internal_urls)
               /\ normalize_url(result.internal[a]) \notin Fetched

\* C9: every link that is the same url as the seed is dropped, the worklist
\* holds exactly one entry that is the same url as the seed, and the fan-out
\* fetches the seed page once.
C9_SelfExclusion ==
    Built =>
        /\ \A a \in DOMAIN result.internal :
              is_same_url(result.internal[a], input_url)
                 => ~KeepLink(result.internal[a], input_url)
        /\ Cardinality({i \in DOMAIN internal_urls :
                           is_same_url(internal_urls[i], input_url)}) = 1
        /\ pc = "Done" =>
              Cardinality({i \in DOMAIN tasks :
                  fetch_calls[i] > 0 /\ is_same_url(tasks[i], input_url)}) = 1

\* C10: in the end-to-end scenario the worklist is the three keys of the
\* seed, /a and /c, and the external link is not scheduled.
C10_EndToEnd ==
    (input_url = EndToEndSeed /\ site = EndToEndSite /\ Built) =>
        /\ Len(internal_urls) = 3
        /\ Range(internal_urls) =
              {normalize_url(EndToEndSeed), normalize_url("/a"),
               normalize_url("https://example.com/c")}
        /\ Range(internal_urls) = {"https://example.com", "/a", "https://example.com/c"}
        /\ \A e \in Range(site.external) :
              normalize_url(e) \notin Range(internal_urls) \cup Fetched

\* the scenario has run to the end and fetched its three entries
C10_Witness ==
    /\ input_url = EndToEndSeed /\ site = EndToEndSite
    /\ pc = "Done"
    /\ Len(tasks) = 3
    /\ \A i \in DOMAIN tasks : fetch_calls[i] = 1

\* the handler has given its response
Terminal == pc \in {"Done", "Failed", "Error"}

\* C11: the session is released exactly once on every way out of the
\* handler, and is open until then.
C11_SessionReleasedOnce ==
    /\ closes <= 1
    /\ Terminal => crawler = "closed" /\ closes = 1
    /\ (~Terminal /\ pc # "Idle") => crawler = "open" /\ closes = 0

\* the handler was left by an exception of the pre-warm call
C11_Witness ==
    /\ pc = "Error"
    /\ arun_calls.prewarm = 1
    /\ crawler = "closed"
    /\ closes = 1

\* C14: no fan-out call is made twice, and an invocation whose discovery
\* succeeded ends with one call started and completed for every entry of
\* the worklist.
C14_EveryEntryFetchedOnce ==
    /\ \A i \in DOMAIN tasks : fetch_calls[i] <= 1
    /\ (result.state = "success" /\ Terminal) =>
          /\ Built
          /\ Len(tasks) = Len(internal_urls)
          /\ \A i \in DOMAIN tasks : fetch_calls[i] = 1 /\ tstate[i] = "done"

\* C16: every url given to a fan-out call, and every url of a reported
\* page, is a raw link as discovered or the seed url as given.
C16_RawUrlsFetched ==
    /\ Fetched \subseteq Range(result.internal) \cup {input_url}
    /\ PageUrls \subseteq Range(result.internal) \cup {input_url}

\* C18: one pre-warm call is made once the worklist is built and before the
\* fan-out, and whatever it does the invocation ends with the report of the
\* fan-out.
C18_PrewarmNotRequired ==
    /\ arun_calls.prewarm <= 1
    /\ arun_calls.prewarm = 1 => Built
    /\ Fetched # {} => arun_calls.prewarm = 1 /\ pc # "PrewarmingEngine"
    /\ (arun_calls.prewarm = 1 /\ Terminal) =>
          /\ pc = "Done"
          /\ response.status = "returned"
          /\ response.success

\* C19: no two urls given to fan-out calls, and no two urls of reported
\* pages, are the same url.
C19_NoPageFetchedTwice ==
    /\ \A i, j \in DOMAIN tasks :
          (i # j /\ fetch_calls[i] > 0 /\ fetch_calls[j] > 0)
             => ~is_same_url(tasks[i], tasks[j])
    /\ \A a, b \in DOMAIN response.pages :
          a # b => ~is_same_url(response.pages[a].url, response.pages[b].url)

\* C20: while the session is closed no task waits or runs and every permit
\* of the semaphore is free.
C20_NoWorkAfterRelease ==
    crawler = "closed" =>
        /\ \A i \in DOMAIN tasks : tstate[i] = "done"
        /\ semaphore = MaxConcurrency

\* the session was released after six tasks, one failed and one raised
C20_Witness ==
    /\ crawler = "closed"
    /\ Len(tasks) > MaxConcurrency
    /\ \E i, j \in DOMAIN tasks : md_result[i] = "failure" /\ md_result[j] = "raised"
    /\ \A i \in DOMAIN tasks : tstate[i] = "done"

StateOrder ==
    <<"Idle", "DiscoveringLinks", "BuildingWorklist", "PrewarmingEngine",
      "FanningOut", "Aggregating", "Done">>

\* a change of control state goes to the next state of the sequence, to
\* Failed after a failed discovery, or out of the sequence by an exception
StepAllowed ==
    pc' # pc =>
        \/ \E k \in 1..(Len(StateOrder) - 1) :
              pc = StateOrder[k] /\ pc' = StateOrder[k + 1]
        \/ pc = "DiscoveringLinks" /\ pc' = "Failed" /\ result'.state = "failure"
        \/ pc \in {"DiscoveringLinks", "PrewarmingEngine"} /\ pc' = "Error"

\* the pre-warm call has returned before any fan-out call is made
PrewarmBeforeFanOut ==
    Fetched # {} =>
        arun_calls.prewarm = 1 /\ pc \in {"FanningOut", "Aggregating", "Done"}

\* the semaphore has been created
SemaphoreExists == semaphore >= 0

\* C15 as claimed: the control states follow the sequence, each entered
\* from its predecessor, Failed only after a failed discovery, the pre-warm
\* before the fan-out, and the semaphore exists only in FanningOut.
C15_StateSequence_AsClaimed ==
    /\ [](PrewarmBeforeFanOut /\ (SemaphoreExists => pc = "FanningOut"))
    /\ [][StepAllowed]_vars

\* C15: the control states follow the sequence, each entered from its
\* predecessor, Failed only after a failed discovery, the pre-warm before
\* the fan-out; the semaphore exists from the start of the handler on and
\* has permits taken only in FanningOut.
C15_StateSequence ==
    /\ [](/\ PrewarmBeforeFanOut
          /\ SemaphoreExists <=> pc # "Idle"
          /\ (SemaphoreExists /\ pc # "FanningOut") => semaphore = MaxConcurrency
          /\ SemaphoreExists => semaphore <= MaxConcurrency)
    /\ [][StepAllowed]_vars

\* the whole sequence was followed to Done
C15_Witness ==
    /\ pc = "Done"
    /\ arun_calls.discover = 1
    /\ arun_calls.prewarm = 1
    /\ Len(tasks) >= 2
    /\ \A i \in DOMAIN tasks : fetch_calls[i] = 1
    /\ semaphore = MaxConcurrency

(***************************************************************************)
(* The credential check and the distinctness of keys                       *)
(***************************************************************************)

Decided == auth.status # "pending"

Unauthorized ==
    \/ api_key_header = NoHeader
    \/ table.up /\ api_key_header[1] \notin table.keys

NeverRan ==
    /\ crawler = "unopened"
    /\ arun_calls = [discover |-> 0, prewarm |-> 0]
    /\ response = NoResponse

\* C12: a request whose X-API-Key header is missing, or matches no key of the
\* credential directory, is rejected with the authorization failure (403) and
\* with no other error outcome, and the crawl orchestrator never runs for it
C12_UnauthorizedRejected ==
    (Decided /\ Unauthorized) =>
        /\ auth.status = "rejected"
        /\ auth.code = HTTP_403_FORBIDDEN
        /\ pc = "Rejected"
        /\ NeverRan

\* the outcome the check gives a key that is in no record of a reachable
\* directory
InvalidCredentialOutcome == get_api_key(<<"key-mallory">>, ReachableTable)

\* C13: when the credential directory cannot be reached, the request is
\* rejected with an outcome whose status differs from the status given to an
\* invalid credential
C13_DirectoryFailureDistinct ==
    (Decided /\ api_key_header # NoHeader /\ ~table.up) =>
        /\ auth.status = "rejected"
        /\ auth.code # InvalidCredentialOutcome.code

\* C17: two URLs that differ by more than scheme, a leading "www.", a default
\* port, letter case, one trailing slash or a fragment get different keys, and
\* a link list holding both keeps both in the worklist
C17_DistinctUrlsDistinctKeys ==
    phase # "input" =>
        /\ nkey # pkey
        /\ Len(UniqueKeys(<<nurl, nplain>>, "https://seed.example.net/", <<>>)) = 2

(***************************************************************************)
(* Termination of the fan-out                                              *)
(***************************************************************************)

TaskIds == 1..(MaxConcurrency + 1)

Waiting(i) == i \in DOMAIN tasks /\ tstate[i] = "waiting"

Admitted(i) == i \in DOMAIN tasks /\ fetch_calls[i] = 1

Reported == pc \in {"Done", "Failed"} /\ response.status = "returned"

\* once the fan-out has been reached every waiting task is admitted and the
\* handler returns its report
FanOutTerminates ==
    /\ \A i \in TaskIds : Waiting(i) ~> Admitted(i)
    /\ (pc = "FanningOut") ~> (pc = "Done" /\ Reported)

\* C21: under a fair scheduler and an engine whose every call returns, every
\* task waiting for a permit is eventually admitted and the orchestrator
\* eventually reaches Done or Failed with its report returned
C21_FanOutTerminates ==
    /\ \A i \in TaskIds : Waiting(i) ~> Admitted(i)
    /\ <>Reported
====
